---- MODULE Spec2Model ----
(***************************************************************************)
(* Availability engine of the calendar backend: the slot generator         *)
(* (check_availability / process_availability_rule) and the conflict       *)
(* checker (check_time_slot / is_slot_available / is_slot_available_in_rule)*)
(* of src/src/modules/calendar/calendar_controller.rs, over the stored     *)
(* CalendarSettings and Availability documents of calendar_crud.rs, and    *)
(* the handlers that create, update and delete these documents, one step   *)
(* per database call so that concurrent requests interleave; and           *)
(* refresh_token of src/src/modules/user/user_controller.rs over the       *)
(* users collection of user_crud.rs.                                       *)
(*                                                                         *)
(* Representation of the values the code handles:                          *)
(*   NaiveTime        seconds since midnight, 0 .. SecondsPerDay-1         *)
(*   "HH:MM" string   [valid, minute]; valid = FALSE is a string that      *)
(*                    NaiveTime::parse_from_str(.., "%H:%M") rejects       *)
(*   bson DateTime    seconds since the epoch (1970-01-01 00:00 UTC)       *)
(*   NaiveDate        days since the epoch; day 0 is a Thursday            *)
(*   "YYYY-MM-DD"     [valid, day]                                         *)
(*   Option<T>        [some, ts]                                           *)
(***************************************************************************)
EXTENDS Integers, Sequences, FiniteSets, TLC

VARIABLES
    calendar_settings,      \* collection "calendar_settings": sequence of CalendarSettings
    availability,           \* collection "availability": sequence of Availability documents
    pc,                     \* position of the request being served
    request,                \* the request being served
    buffer_time,            \* check_availability: settings.buffer_time of the caller
    range,                  \* check_availability: parsed start_date / end_date
    todo,                   \* check_availability: rules not yet processed, in fetch order
    available_slots,        \* check_availability: accumulator (line 254)
    rule,                   \* process_availability_rule: the rule being expanded
    rule_slots,             \* process_availability_rule: its local available_slots (line 287)
    current_date,           \* process_availability_rule: date cursor
    slot_index,             \* process_availability_rule: position of `for slot in rule.slots`
    current_time,           \* process_availability_rule: packing cursor
    slot_end,               \* process_availability_rule: parsed end of the current template
    truncated,              \* TRUE once an emission was dropped because of MaxEmit
    response,               \* the response of the last finished request
    call,                   \* per client: the store request in flight between its read and its write
    reply,                  \* the last response of a store handler, with the request it answers
    next_id,                \* the next ObjectId the database hands out
    earlier,                \* the first answered query and its answer, kept to compare
    users,                  \* collection "users": sequence of User documents
    next_token,             \* the next value generate_refresh_token hands out
    accepted                \* the tokens presented by the refresh_token calls that succeeded, in order

vars == <<calendar_settings, availability, pc, request, buffer_time, range, todo,
          available_slots, rule, rule_slots, current_date, slot_index, current_time,
          slot_end, truncated, response, call, reply, next_id, earlier, users, next_token,
          accepted>>

-----------------------------------------------------------------------------
(* Bounds of the model *)

MaxDay == 2      \* dates range over days 0 .. MaxDay since the epoch
MaxEmit == 17    \* emissions kept in the modelled Vec; later ones are dropped

(* Program constants *)

SecondsPerDay == 86400      \* NaiveTime arithmetic wraps at 24:00
SecondsPerMinute == 60      \* Duration::minutes
EndOfDayDefault == 86399    \* NaiveTime::from_hms_opt(23, 59, 59)

-----------------------------------------------------------------------------
(* Strings and their parsers / formatters *)

TimeStr(m) == [valid |-> TRUE, minute |-> m]
BadTimeStr == [valid |-> FALSE, minute |-> 0]

DateStr(d) == [valid |-> TRUE, day |-> d]
BadDateStr == [valid |-> FALSE, day |-> 0]

Some(ts) == [some |-> TRUE, ts |-> ts]
None == [some |-> FALSE, ts |-> 0]

\* NaiveTime::parse_from_str(s, "%H:%M").unwrap_or_else(|_| default)
ParseTimeOr(s, default) == IF s.valid THEN s.minute * SecondsPerMinute ELSE default

\* time.format("%H:%M"): the seconds are dropped
FormatHM(t) == TimeStr(t \div SecondsPerMinute)

\* NaiveTime + Duration::minutes(m): wraps around midnight, ignores whole days
AddMinutes(t, m) == (t + m * SecondsPerMinute) % SecondsPerDay

\* chrono::DateTime::from_timestamp_millis(ts).date_naive()
DateNaive(ts) == ts \div SecondsPerDay

DayNames == <<"monday", "tuesday", "wednesday", "thursday", "friday", "saturday", "sunday">>

\* date.format("%A").to_string().to_lowercase(); 1970-01-01 was a Thursday
DayOfWeek(d) == DayNames[((d + 3) % 7) + 1]

\* comparison of two AvailableTimeSlot by (date, start_time), both zero-padded strings
SlotLeq(a, b) ==
    \/ a.date.day < b.date.day
    \/ a.date.day = b.date.day /\ a.start_time.minute <= b.start_time.minute

RECURSIVE InsertSorted(_, _)
InsertSorted(x, s) ==
    IF s = <<>> THEN <<x>>
    ELSE IF SlotLeq(s[1], x) THEN <<s[1]>> \o InsertSorted(x, Tail(s))
    ELSE <<x>> \o s

RECURSIVE SortInsert(_, _)
SortInsert(s, acc) ==
    IF s = <<>> THEN acc ELSE SortInsert(Tail(s), InsertSorted(s[1], acc))

\* mutant of SortSlots: the sort is left out, the accumulator is answered as it is
SortSlots_left_out(s) == s

\* available_slots.sort_by(|a, b| a.date.cmp(&b.date).then(a.start_time.cmp(&b.start_time)))
SortSlots(s) == SortInsert(s, <<>>)

-----------------------------------------------------------------------------
(* The two collections and their queries (calendar_crud.rs) *)

Min(S) == CHOOSE x \in S : \A y \in S : x <= y

\* collection.find_one(doc! { "user_id": user_id }): the first match in natural order
FindOneByUser(coll, user_id) ==
    LET hits == {i \in 1..Len(coll) : coll[i].user_id = user_id}
    IN  IF hits = {} THEN [found |-> FALSE] ELSE [found |-> TRUE, doc |-> coll[Min(hits)]]

\* the filter of find_available_slots on one document. A condition on a dotted path
\* into the rules array holds when SOME element satisfies it, each condition on its
\* own; { "$gte": date } never matches null, and null matches an absent end_date.
MatchesAvailableSlotsFilter(doc, user_id, start_date, end_date) ==
    LET R == {doc.rules[i] : i \in 1..Len(doc.rules)}
    IN  /\ doc.user_id = user_id
        /\ \/ /\ \E r \in R : r.start_date <= end_date
              /\ \E r \in R : r.end_date.some /\ r.end_date.ts >= start_date
           \/ /\ \E r \in R : r.start_date <= end_date
              /\ \E r \in R : ~r.end_date.some
              /\ \E r \in R : r.is_recurring

RECURSIVE SelectDocs(_, _, _, _)
SelectDocs(coll, user_id, start_date, end_date) ==
    IF coll = <<>> THEN <<>>
    ELSE (IF MatchesAvailableSlotsFilter(coll[1], user_id, start_date, end_date)
          THEN <<coll[1]>> ELSE <<>>)
         \o SelectDocs(Tail(coll), user_id, start_date, end_date)

\* AvailabilityRepository::find_available_slots
find_available_slots(user_id, start_date, end_date) ==
    SelectDocs(availability, user_id, start_date, end_date)

\* the order in which `for availability in availabilities { for rule in availability.rules`
\* visits the rules
RECURSIVE RulesInOrder(_)
RulesInOrder(docs) ==
    IF docs = <<>> THEN <<>> ELSE docs[1].rules \o RulesInOrder(Tail(docs))

-----------------------------------------------------------------------------
(* The packing loop of process_availability_rule, lines 311-328 *)

\* let total_duration = duration + buffer_time.before + buffer_time.after
total_duration(duration, buffer) == duration + buffer.before + buffer.after

\* while current_time + Duration::minutes(total_duration) <= slot_end
PackContinues(cur, duration, buffer, end) ==
    AddMinutes(cur, total_duration(duration, buffer)) <= end

\* let actual_start = current_time + Duration::minutes(buffer_time.before)
actual_start(cur, buffer) == AddMinutes(cur, buffer.before)

\* let actual_end = actual_start + Duration::minutes(duration)
actual_end(cur, duration, buffer) == AddMinutes(actual_start(cur, buffer), duration)

\* current_time = actual_end + Duration::minutes(buffer_time.after)
NextCursor(cur, duration, buffer) ==
    AddMinutes(actual_end(cur, duration, buffer), buffer.after)

\* AvailableTimeSlot { date, start_time, end_time } pushed at line 320
EmittedSlot(date, cur, duration, buffer) ==
    [date       |-> DateStr(date),
     start_time |-> FormatHM(actual_start(cur, buffer)),
     end_time   |-> FormatHM(actual_end(cur, duration, buffer))]

\* `slot.day_of_week != day_of_week || !slot.is_available` (continue) negated
SlotMatches(slot, date) == slot.day_of_week = DayOfWeek(date) /\ slot.is_available

-----------------------------------------------------------------------------
(* check_availability, one step per loop iteration *)

NoRule == [start_date |-> 0, end_date |-> None, is_recurring |-> FALSE,
           recurrence_pattern |-> "none", slots |-> <<>>]
NoRange == [start |-> 0, end |-> 0]
NoBuffer == [before |-> 0, after |-> 0]

GenLocals == <<rule, rule_slots, current_date, slot_index, current_time, slot_end>>

\* the users collection and the token source of user_controller.rs
AuthVars == <<users, next_token, accepted>>

\* the state of the store handlers, which the two queries leave alone
StoreLocals == <<call, reply, next_id, earlier, AuthVars>>

\* lines 225-251: validate, load settings, parse the range, fetch the documents
check_availability(user_id, start_date, end_date, duration) ==
    /\ pc = "idle"
    /\ request' = [op |-> "check_availability", user_id |-> user_id,
                   start_date |-> start_date, end_date |-> end_date,
                   duration |-> duration]
    /\ LET settings == FindOneByUser(calendar_settings, user_id)
       IN  IF ~settings.found
           THEN /\ response' = [status |-> "NotFound", message |-> "Calendar settings not found"]
                /\ pc' = "done"
                /\ UNCHANGED <<buffer_time, range, todo>>
           ELSE IF ~start_date.valid
           THEN /\ response' = [status |-> "BadRequest", message |-> "Invalid start date format"]
                /\ pc' = "done"
                /\ UNCHANGED <<buffer_time, range, todo>>
           ELSE IF ~end_date.valid
           THEN /\ response' = [status |-> "BadRequest", message |-> "Invalid end date format"]
                /\ pc' = "done"
                /\ UNCHANGED <<buffer_time, range, todo>>
           ELSE /\ buffer_time' = settings.doc.buffer_time
                /\ range' = [start |-> start_date.ts, end |-> end_date.ts]
                /\ todo' = RulesInOrder(find_available_slots(user_id, start_date.ts, end_date.ts))
                /\ pc' = "rule"
                /\ UNCHANGED response
    /\ available_slots' = <<>>
    /\ truncated' = FALSE
    /\ UNCHANGED <<calendar_settings, availability>>
    /\ UNCHANGED GenLocals
    /\ UNCHANGED StoreLocals

\* lines 255-257 and 287-294: take the next rule and enter process_availability_rule
process_availability_rule ==
    /\ pc = "rule"
    /\ todo # <<>>
    /\ rule' = Head(todo)
    /\ todo' = Tail(todo)
    /\ rule_slots' = <<>>
    /\ current_date' = DateNaive(range.start)
    /\ slot_index' = 1
    /\ pc' = "date"
    /\ UNCHANGED <<calendar_settings, availability, request, buffer_time, range,
                   available_slots, current_time, slot_end, truncated, response>>
    /\ UNCHANGED StoreLocals

\* lines 296-312 and 331-335: the date loop and the loop over the rule's slots
process_availability_rule_date ==
    /\ pc = "date"
    /\ IF current_date > DateNaive(range.end)
       THEN \* return Some(available_slots); available_slots.append(&mut slots)
            /\ available_slots' = available_slots \o rule_slots
            /\ pc' = "rule"
            /\ UNCHANGED <<current_date, slot_index, current_time, slot_end, rule_slots>>
       ELSE IF slot_index > Len(rule.slots)
       THEN \* current_date = current_date.succ_opt().unwrap_or(end_date)
            /\ current_date' = current_date + 1
            /\ slot_index' = 1
            /\ UNCHANGED <<available_slots, pc, current_time, slot_end, rule_slots>>
       ELSE IF ~SlotMatches(rule.slots[slot_index], current_date)
       THEN \* continue
            /\ slot_index' = slot_index + 1
            /\ UNCHANGED <<available_slots, pc, current_date, current_time, slot_end, rule_slots>>
       ELSE /\ current_time' = ParseTimeOr(rule.slots[slot_index].start_time, 0)
            /\ slot_end' = ParseTimeOr(rule.slots[slot_index].end_time, EndOfDayDefault)
            /\ pc' = "pack"
            /\ UNCHANGED <<available_slots, current_date, slot_index, rule_slots>>
    /\ UNCHANGED <<calendar_settings, availability, request, buffer_time, range, todo,
                   rule, truncated, response>>
    /\ UNCHANGED StoreLocals

\* lines 315-328: one test of the packing loop and, when it holds, one iteration
process_availability_rule_pack ==
    /\ pc = "pack"
    /\ IF PackContinues(current_time, request.duration, buffer_time, slot_end)
       THEN /\ IF Len(available_slots) + Len(rule_slots) < MaxEmit
               THEN /\ rule_slots' = Append(rule_slots,
                          EmittedSlot(current_date, current_time, request.duration, buffer_time))
                    /\ UNCHANGED truncated
               ELSE /\ truncated' = TRUE
                    /\ UNCHANGED rule_slots
            /\ current_time' = NextCursor(current_time, request.duration, buffer_time)
            /\ UNCHANGED <<pc, slot_index>>
       ELSE /\ slot_index' = slot_index + 1
            /\ pc' = "date"
            /\ UNCHANGED <<rule_slots, current_time, truncated>>
    /\ UNCHANGED <<calendar_settings, availability, request, buffer_time, range, todo,
                   available_slots, rule, current_date, slot_end, response>>
    /\ UNCHANGED StoreLocals

\* lines 269-276: sort and answer
check_availability_return ==
    /\ pc = "rule"
    /\ todo = <<>>
    /\ response' = [status |-> "Ok", available_slots |-> SortSlots(available_slots)]
    /\ pc' = "done"
    /\ UNCHANGED <<calendar_settings, availability, request, buffer_time, range, todo,
                   available_slots, truncated>>
    /\ UNCHANGED GenLocals
    /\ UNCHANGED StoreLocals

-----------------------------------------------------------------------------
(* The conflict checker: is_slot_available and is_slot_available_in_rule *)

NoWorkingHours == "No working hours set for this day"
OutsideWorkingHours == "Time slot is outside working hours"
NotInSchedule == "Time slot is not available in your schedule"

\* NaiveDate::parse_from_str(date, "%Y-%m-%d").ok()
\*    .and_then(|d| Some(d.format("%A").to_string().to_lowercase())).unwrap_or_default()
DayOfWeekOrDefault(date) == IF date.valid THEN DayOfWeek(date.day) ELSE ""

\* mutant of is_within_working_hours: all() in place of any()
is_within_working_hours_all(working_hours, start_time, end_time) ==
    LET slot_start == ParseTimeOr(start_time, 0)
        slot_finish == ParseTimeOr(end_time, EndOfDayDefault)
    IN  \A i \in 1..Len(working_hours) :
           /\ slot_start >= ParseTimeOr(working_hours[i].start, 0)
           /\ slot_finish <= ParseTimeOr(working_hours[i].end, EndOfDayDefault)

\* lines 591-602: working_hours.iter().any(|wh| slot_start >= wh_start && slot_end <= wh_end)
is_within_working_hours(working_hours, start_time, end_time) ==
    LET slot_start == ParseTimeOr(start_time, 0)
        slot_finish == ParseTimeOr(end_time, EndOfDayDefault)
    IN  \E i \in 1..Len(working_hours) :
           /\ slot_start >= ParseTimeOr(working_hours[i].start, 0)
           /\ slot_finish <= ParseTimeOr(working_hours[i].end, EndOfDayDefault)

\* lines 578-611: the conflicts the working-hours stage pushes (none when it passes)
working_hours_conflicts(settings, date, start_time, end_time) ==
    LET day_of_week == DayOfWeekOrDefault(date)
    IN  IF day_of_week \in DOMAIN settings.working_hours
        THEN IF settings.working_hours[day_of_week] = <<>>
             THEN <<NoWorkingHours>>
             ELSE IF ~is_within_working_hours(settings.working_hours[day_of_week],
                                              start_time, end_time)
             THEN <<OutsideWorkingHours>>
             ELSE <<>>
        ELSE <<NoWorkingHours>>

\* lines 634-637: the parsed date, or NaiveDateTime::default() = 1970-01-01 00:00:00
SlotDateOrDefault(date) == IF date.valid THEN date.day ELSE 0

\* lines 642-650: `slot_date > rule_end`, rule_end = NaiveDateTime::MAX when end_date is None
AfterRuleEnd(r, slot_date) == r.end_date.some /\ slot_date > DateNaive(r.end_date.ts)

\* mutant of is_slot_available_in_rule: a rule whose recurrence_pattern is "daily"
\* applies its templates on every weekday
is_slot_available_in_rule_by_pattern(r, date, start_time, end_time) ==
    LET slot_date == SlotDateOrDefault(date)
        day_of_week == DayOfWeek(slot_date)
        slot_start == ParseTimeOr(start_time, 0)
        slot_finish == ParseTimeOr(end_time, EndOfDayDefault)
    IN  IF slot_date < DateNaive(r.start_date) \/ AfterRuleEnd(r, slot_date)
        THEN FALSE
        ELSE \E i \in 1..Len(r.slots) :
                /\ r.slots[i].day_of_week = day_of_week \/ r.recurrence_pattern = "daily"
                /\ r.slots[i].is_available
                /\ r.slots[i].start_time.valid
                /\ r.slots[i].start_time.minute * SecondsPerMinute <= slot_start
                /\ r.slots[i].end_time.valid
                /\ r.slots[i].end_time.minute * SecondsPerMinute >= slot_finish

\* lines 626-669
is_slot_available_in_rule(r, date, start_time, end_time) ==
    LET slot_date == SlotDateOrDefault(date)
        day_of_week == DayOfWeek(slot_date)
        slot_start == ParseTimeOr(start_time, 0)
        slot_finish == ParseTimeOr(end_time, EndOfDayDefault)
    IN  IF slot_date < DateNaive(r.start_date) \/ AfterRuleEnd(r, slot_date)
        THEN FALSE
        ELSE \E i \in 1..Len(r.slots) :
                /\ r.slots[i].day_of_week = day_of_week
                /\ r.slots[i].is_available
                /\ r.slots[i].start_time.valid
                /\ r.slots[i].start_time.minute * SecondsPerMinute <= slot_start
                /\ r.slots[i].end_time.valid
                /\ r.slots[i].end_time.minute * SecondsPerMinute >= slot_finish

\* lines 614-616: availability.rules.iter().any(|rule| self.is_slot_available_in_rule(..))
is_within_availability(doc, date, start_time, end_time) ==
    \E j \in 1..Len(doc.rules) :
       is_slot_available_in_rule(doc.rules[j], date, start_time, end_time)

\* mutant of is_slot_available: no early return after the working-hours stage, so the
\* rule stage runs too and pushes its reason
is_slot_available_no_early_return(date, start_time, end_time, settings, doc) ==
    LET wh == working_hours_conflicts(settings, date, start_time, end_time)
        rs == IF is_within_availability(doc, date, start_time, end_time)
              THEN <<>> ELSE <<NotInSchedule>>
    IN  [is_available |-> wh = <<>> /\ rs = <<>>, conflicts |-> wh \o rs]

\* mutant of is_slot_available: the rule stage asks for room for the buffers of the
\* settings around the window
is_slot_available_buffered(date, start_time, end_time, settings, doc) ==
    LET wh == working_hours_conflicts(settings, date, start_time, end_time)
        padded_start == [start_time EXCEPT !.minute = @ - settings.buffer_time.before]
        padded_end == [end_time EXCEPT !.minute = @ + settings.buffer_time.after]
    IN  IF wh # <<>>
        THEN [is_available |-> FALSE, conflicts |-> wh]
        ELSE IF ~is_within_availability(doc, date, padded_start, padded_end)
        THEN [is_available |-> FALSE, conflicts |-> <<NotInSchedule>>]
        ELSE [is_available |-> TRUE, conflicts |-> <<>>]

\* lines 569-624, with the conflicts it leaves in `conflicts`
is_slot_available(date, start_time, end_time, settings, doc) ==
    LET wh == working_hours_conflicts(settings, date, start_time, end_time)
    IN  IF wh # <<>>
        THEN [is_available |-> FALSE, conflicts |-> wh]
        ELSE IF ~is_within_availability(doc, date, start_time, end_time)
        THEN [is_available |-> FALSE, conflicts |-> <<NotInSchedule>>]
        ELSE [is_available |-> TRUE, conflicts |-> <<>>]

\* line 482: conflicts: if conflicts.is_empty() { None } else { Some(conflicts) }
OptionalConflicts(conflicts) ==
    IF conflicts = <<>> THEN [some |-> FALSE, value |-> <<>>]
    ELSE [some |-> TRUE, value |-> conflicts]

\* lines 452-484
check_time_slot(user_id, date, start_time, end_time) ==
    /\ pc = "idle"
    /\ request' = [op |-> "check_time_slot", user_id |-> user_id, date |-> date,
                   start_time |-> start_time, end_time |-> end_time]
    /\ LET settings == FindOneByUser(calendar_settings, user_id)
           doc == FindOneByUser(availability, user_id)
       IN  IF ~settings.found
           THEN response' = [status |-> "NotFound", message |-> "Calendar settings not found"]
           ELSE IF ~doc.found
           THEN response' = [status |-> "NotFound", message |-> "Availability not found"]
           ELSE LET r == is_slot_available(date, start_time, end_time, settings.doc, doc.doc)
                IN  response' = [status |-> "Ok", is_available |-> r.is_available,
                                 conflicts |-> OptionalConflicts(r.conflicts)]
    /\ pc' = "done"
    /\ UNCHANGED <<calendar_settings, availability, buffer_time, range, todo,
                   available_slots, truncated>>
    /\ UNCHANGED GenLocals
    /\ UNCHANGED StoreLocals

-----------------------------------------------------------------------------
(* The store handlers of calendar_controller.rs, one step per database call *)

MaxId == 2       \* ObjectIds handed out by the database: 1 .. MaxId

Clients == {"c1", "c2"}
Users == {"u1", "u2"}

QueryVars == <<pc, request, buffer_time, range, todo, available_slots, rule, rule_slots,
               current_date, slot_index, current_time, slot_end, truncated, response>>

\* what the calendar's store handlers leave alone
EngineVars == <<QueryVars, earlier, AuthVars>>

IdleCall == [at |-> "idle", op |-> "none"]
NoReply == [to |-> "none", request |-> IdleCall, status |-> "none", message |-> ""]

\* the handler of client c returns Ok(HttpResponse) or Err(AppError)
Returns(c, req, status, message) ==
    /\ call' = [call EXCEPT ![c] = IdleCall]
    /\ reply' = [to |-> c, request |-> req, status |-> status, message |-> message]

\* the handler of client c has read the database and awaits its write
Awaits(c, req) ==
    /\ call' = [call EXCEPT ![c] = [req EXCEPT !.at = "pending"]]
    /\ UNCHANGED reply

\* collection.find_one(doc! { "_id": id })
FindById(coll, id) ==
    LET hits == {i \in 1..Len(coll) : coll[i].id = id}
    IN  IF hits = {} THEN [found |-> FALSE] ELSE [found |-> TRUE, doc |-> coll[Min(hits)]]

\* collection.find_one_and_replace(doc! { "_id": id }, &doc)
ReplaceById(coll, id, doc) ==
    [i \in 1..Len(coll) |-> IF coll[i].id = id THEN doc ELSE coll[i]]

\* collection.find_one_and_delete(doc! { "_id": id })
RemoveById(coll, id) == SelectSeq(coll, LAMBDA d : d.id # id)

\* data.validate() of CreateCalendarSettingsRequest: timezone is required and
\* default_meeting_duration lies in 15 .. 120 (calendar_name, date_format and
\* time_format are required like timezone); buffer_time carries no validator
ValidSettingsRequest(data) ==
    /\ data.timezone # ""
    /\ data.default_meeting_duration >= 15
    /\ data.default_meeting_duration <= 120

\* POST /calendar/settings, lines 38-67 and calendar_crud.rs line 22
create_settings(c, user_id, data) ==
    /\ call[c].at = "idle"
    /\ LET req == [at |-> "idle", op |-> "create_settings", user_id |-> user_id,
                   data |-> data]
       IN  IF ~ValidSettingsRequest(data)
           THEN Returns(c, req, "ValidationError", "invalid settings request")
           ELSE IF FindOneByUser(calendar_settings, user_id).found
           THEN Returns(c, req, "BadRequest", "Calendar settings already exist for this user")
           ELSE Awaits(c, req)
    /\ UNCHANGED <<calendar_settings, availability, next_id>>
    /\ UNCHANGED EngineVars

\* calendar_crud.rs lines 26-36 and lines 69-84: insert_one and the response
create_settings_insert(c) ==
    /\ call[c].at = "pending"
    /\ call[c].op = "create_settings"
    /\ next_id <= MaxId
    /\ calendar_settings' = Append(calendar_settings,
           [id |-> next_id, user_id |-> call[c].user_id,
            working_hours |-> call[c].data.working_hours,
            buffer_time |-> call[c].data.buffer_time])
    /\ next_id' = next_id + 1
    /\ Returns(c, call[c], "Created", "")
    /\ UNCHANGED availability
    /\ UNCHANGED EngineVars

\* PUT /calendar/settings, lines 87-117
update_settings(c, user_id, data) ==
    /\ call[c].at = "idle"
    /\ LET req == [at |-> "idle", op |-> "update_settings", user_id |-> user_id,
                   data |-> data, id |-> 0]
           existing_settings == FindOneByUser(calendar_settings, user_id)
       IN  IF ~ValidSettingsRequest(data)
           THEN Returns(c, req, "ValidationError", "invalid settings request")
           ELSE IF ~existing_settings.found
           THEN Returns(c, req, "NotFound", "Calendar settings not found")
           ELSE Awaits(c, [req EXCEPT !.id = existing_settings.doc.id])
    /\ UNCHANGED <<calendar_settings, availability, next_id>>
    /\ UNCHANGED EngineVars

\* lines 119-138 and calendar_crud.rs lines 46-60: find_one_and_replace by _id
update_settings_replace(c) ==
    /\ call[c].at = "pending"
    /\ call[c].op = "update_settings"
    /\ IF FindById(calendar_settings, call[c].id).found
       THEN /\ calendar_settings' = ReplaceById(calendar_settings, call[c].id,
                   [id |-> call[c].id, user_id |-> call[c].user_id,
                    working_hours |-> call[c].data.working_hours,
                    buffer_time |-> call[c].data.buffer_time])
            /\ Returns(c, call[c], "Ok", "")
       ELSE /\ UNCHANGED calendar_settings
            /\ Returns(c, call[c], "NotFound", "Failed to update calendar settings")
    /\ UNCHANGED <<availability, next_id>>
    /\ UNCHANGED EngineVars

\* DELETE /calendar/settings, lines 141-151
delete_settings(c, user_id) ==
    /\ call[c].at = "idle"
    /\ LET req == [at |-> "idle", op |-> "delete_settings", user_id |-> user_id, id |-> 0]
           existing_settings == FindOneByUser(calendar_settings, user_id)
       IN  IF ~existing_settings.found
           THEN Returns(c, req, "NotFound", "Calendar settings not found")
           ELSE Awaits(c, [req EXCEPT !.id = existing_settings.doc.id])
    /\ UNCHANGED <<calendar_settings, availability, next_id>>
    /\ UNCHANGED EngineVars

\* lines 153-159 and calendar_crud.rs lines 62-67: find_one_and_delete by _id
delete_settings_delete(c) ==
    /\ call[c].at = "pending"
    /\ call[c].op = "delete_settings"
    /\ IF FindById(calendar_settings, call[c].id).found
       THEN /\ calendar_settings' = RemoveById(calendar_settings, call[c].id)
            /\ Returns(c, call[c], "Ok", "Calendar settings deleted successfully")
       ELSE /\ UNCHANGED calendar_settings
            /\ Returns(c, call[c], "NotFound", "Failed to delete calendar settings")
    /\ UNCHANGED <<availability, next_id>>
    /\ UNCHANGED EngineVars

\* Option<String> of a rule request
SomeStr(s) == [some |-> TRUE, str |-> s]
NoStr == [some |-> FALSE, str |-> [valid |-> FALSE, ts |-> 0]]

\* AvailabilityRule::new, calendar_model.rs lines 51-69: both strings go through
\* DateTime::parse_rfc3339_str; nothing else is looked at
AvailabilityRule_new(start_date_str, end_date_str, is_recurring, recurrence_pattern, slots) ==
    IF ~start_date_str.valid
    THEN [ok |-> FALSE, error |-> "Invalid start date"]
    ELSE IF end_date_str.some /\ ~end_date_str.str.valid
    THEN [ok |-> FALSE, error |-> "Invalid end date"]
    ELSE [ok |-> TRUE,
          rule |-> [start_date |-> start_date_str.ts,
                    end_date |-> IF end_date_str.some THEN Some(end_date_str.str.ts) ELSE None,
                    is_recurring |-> is_recurring,
                    recurrence_pattern |-> recurrence_pattern,
                    slots |-> slots]]

\* mutant of ProcessRules: a rule that AvailabilityRule::new rejects is skipped
RECURSIVE ProcessRules_skip_bad(_, _)
ProcessRules_skip_bad(rules, processed_rules) ==
    IF rules = <<>> THEN [ok |-> TRUE, rules |-> processed_rules]
    ELSE LET processed_rule == AvailabilityRule_new(rules[1].start_date, rules[1].end_date,
                 rules[1].is_recurring, rules[1].recurrence_pattern, rules[1].slots)
         IN  IF ~processed_rule.ok
             THEN ProcessRules_skip_bad(Tail(rules), processed_rules)
             ELSE ProcessRules_skip_bad(Tail(rules), Append(processed_rules, processed_rule.rule))

\* lines 187-197 and 508-518: `for rule in &data.rules { AvailabilityRule::new(..)
\* .map_err(|e| AppError::ValidationError(e))?; processed_rules.push(..) }`
RECURSIVE ProcessRules(_, _)
ProcessRules(rules, processed_rules) ==
    IF rules = <<>> THEN [ok |-> TRUE, rules |-> processed_rules]
    ELSE LET processed_rule == AvailabilityRule_new(rules[1].start_date, rules[1].end_date,
                 rules[1].is_recurring, rules[1].recurrence_pattern, rules[1].slots)
         IN  IF ~processed_rule.ok
             THEN [ok |-> FALSE, error |-> processed_rule.error]
             ELSE ProcessRules(Tail(rules), Append(processed_rules, processed_rule.rule))

\* POST /calendar/availability, lines 162-197
create_availability(c, user_id, data) ==
    /\ call[c].at = "idle"
    /\ LET req == [at |-> "idle", op |-> "create_availability", user_id |-> user_id,
                   data |-> data, rules |-> <<>>]
           settings == FindOneByUser(calendar_settings, user_id)
           processed == ProcessRules(data.rules, <<>>)
       IN  IF data.rules = <<>>
           THEN Returns(c, req, "ValidationError", "At least one availability rule is required")
           ELSE IF ~settings.found
           THEN Returns(c, req, "NotFound", "Calendar settings not found")
           ELSE IF settings.doc.id # data.calendar_settings_id
           THEN Returns(c, req, "BadRequest", "Calendar settings do not belong to user")
           ELSE IF ~processed.ok
           THEN Returns(c, req, "ValidationError", processed.error)
           ELSE Awaits(c, [req EXCEPT !.rules = processed.rules])
    /\ UNCHANGED <<calendar_settings, availability, next_id>>
    /\ UNCHANGED EngineVars

\* lines 199-222 and calendar_crud.rs lines 84-96: insert_one and the response
create_availability_insert(c) ==
    /\ call[c].at = "pending"
    /\ call[c].op = "create_availability"
    /\ next_id <= MaxId
    /\ availability' = Append(availability,
           [id |-> next_id, user_id |-> call[c].user_id,
            calendar_settings_id |-> call[c].data.calendar_settings_id,
            rules |-> call[c].rules])
    /\ next_id' = next_id + 1
    /\ Returns(c, call[c], "Created", "")
    /\ UNCHANGED calendar_settings
    /\ UNCHANGED EngineVars

\* mutant of update_availability: no test of existing.user_id against the caller
update_availability_any_user(c, user_id, id, data) ==
    /\ call[c].at = "idle"
    /\ LET req == [at |-> "idle", op |-> "update_availability", user_id |-> user_id,
                   id |-> id, data |-> data, updated |-> <<>>]
           existing == FindById(availability, id)
           processed == ProcessRules(data.rules, <<>>)
       IN  IF ~existing.found
           THEN Returns(c, req, "NotFound", "Availability not found")
           ELSE IF ~processed.ok
           THEN Returns(c, req, "ValidationError", processed.error)
           ELSE Awaits(c, [req EXCEPT !.updated = [existing.doc EXCEPT !.rules = processed.rules]])
    /\ UNCHANGED <<calendar_settings, availability, next_id>>
    /\ UNCHANGED EngineVars

\* PUT /calendar/availability/{id}, lines 486-518 (no data.validate() here)
update_availability(c, user_id, id, data) ==
    /\ call[c].at = "idle"
    /\ LET req == [at |-> "idle", op |-> "update_availability", user_id |-> user_id,
                   id |-> id, data |-> data, updated |-> <<>>]
           existing == FindById(availability, id)
           processed == ProcessRules(data.rules, <<>>)
       IN  IF ~existing.found
           THEN Returns(c, req, "NotFound", "Availability not found")
           ELSE IF existing.doc.user_id # user_id
           THEN Returns(c, req, "Forbidden", "Availability does not belong to user")
           ELSE IF ~processed.ok
           THEN Returns(c, req, "ValidationError", processed.error)
           ELSE Awaits(c, [req EXCEPT !.updated = [existing.doc EXCEPT !.rules = processed.rules]])
    /\ UNCHANGED <<calendar_settings, availability, next_id>>
    /\ UNCHANGED EngineVars

\* lines 520-537 and calendar_crud.rs lines 112-126: find_one_and_replace by _id
update_availability_replace(c) ==
    /\ call[c].at = "pending"
    /\ call[c].op = "update_availability"
    /\ IF FindById(availability, call[c].id).found
       THEN /\ availability' = ReplaceById(availability, call[c].id, call[c].updated)
            /\ Returns(c, call[c], "Ok", "")
       ELSE /\ UNCHANGED availability
            /\ Returns(c, call[c], "NotFound", "Failed to update availability")
    /\ UNCHANGED <<calendar_settings, next_id>>
    /\ UNCHANGED EngineVars

\* DELETE /calendar/availability/{id}, lines 540-558
delete_availability(c, user_id, id) ==
    /\ call[c].at = "idle"
    /\ LET req == [at |-> "idle", op |-> "delete_availability", user_id |-> user_id,
                   id |-> id]
           existing == FindById(availability, id)
       IN  IF ~existing.found
           THEN Returns(c, req, "NotFound", "Availability not found")
           ELSE IF existing.doc.user_id # user_id
           THEN Returns(c, req, "Forbidden", "Availability does not belong to user")
           ELSE Awaits(c, req)
    /\ UNCHANGED <<calendar_settings, availability, next_id>>
    /\ UNCHANGED EngineVars

\* lines 560-566 and calendar_crud.rs lines 128-133: find_one_and_delete by _id
delete_availability_delete(c) ==
    /\ call[c].at = "pending"
    /\ call[c].op = "delete_availability"
    /\ IF FindById(availability, call[c].id).found
       THEN /\ availability' = RemoveById(availability, call[c].id)
            /\ Returns(c, call[c], "Ok", "Availability deleted successfully")
       ELSE /\ UNCHANGED availability
            /\ Returns(c, call[c], "NotFound", "Failed to delete availability")
    /\ UNCHANGED <<calendar_settings, next_id>>
    /\ UNCHANGED EngineVars

-----------------------------------------------------------------------------
(* Stored states and requests the generator is checked on *)

Days == 0..MaxDay
Midnight(d) == d * SecondsPerDay
Noon(d) == d * SecondsPerDay + (SecondsPerDay \div 2)

\* an RFC 3339 string that DateTime::parse_rfc3339_str accepts, by the instant it denotes
Rfc3339(ts) == [valid |-> TRUE, ts |-> ts]
BadRfc3339 == [valid |-> FALSE, ts |-> 0]

Buffers == {0, 5}
Durations == {30, 60, 480}
BufferTimes == [before : Buffers, after : Buffers]
Totals == {total_duration(d, b) : d \in Durations, b \in BufferTimes}

Owner == "u1"

Template(dow, s, e, avail) ==
    [day_of_week |-> dow, start_time |-> TimeStr(s), end_time |-> TimeStr(e),
     is_available |-> avail]

Rule(start, end, recurring, slots) ==
    [start_date |-> start, end_date |-> end, is_recurring |-> recurring,
     recurrence_pattern |-> "weekly", slots |-> slots]

Settings(id, user_id, wh, buffer) ==
    [id |-> id, user_id |-> user_id, working_hours |-> wh, buffer_time |-> buffer]

Doc(id, user_id, sid, rules) ==
    [id |-> id, user_id |-> user_id, calendar_settings_id |-> sid, rules |-> rules]

OfficeHours == [d \in {"thursday", "friday"} |->
                   <<[start |-> TimeStr(540), end |-> TimeStr(1020)]>>]

\* one open-ended recurring rule with one template: every window length around the
\* totals in play, early and late in the day, and windows that end before they start
PackLengths == Totals \cup {T - 1 : T \in Totals} \cup {0, 10, 0 - 60}
PackStarts == {540, 1380, 1405}
PackWindows == {w \in PackStarts \X (0..1439) : (w[2] - w[1]) \in PackLengths}
PackDocs == {Doc(10, Owner, 1, <<Rule(0, None, TRUE, <<Template("thursday", w[1], w[2], TRUE)>>)>>) :
                w \in PackWindows}

\* one rule with one template, every date scope
Instants == {Midnight(d) : d \in Days} \cup {Noon(d) : d \in Days}
Scopes == {Rule(s, e, r, <<>>) : s \in Instants,
                                 e \in {None} \cup {Some(x) : x \in Instants},
                                 r \in BOOLEAN}
ScopeDocs == {Doc(10, Owner, 1, <<[sc EXCEPT !.slots = <<Template(dow, 540, 600, TRUE)>>]>>) :
                sc \in Scopes, dow \in {"thursday", "friday"}}

\* several rules, templates and documents
MultiTemplates == {Template(dow, w[1], w[2], TRUE) :
                      dow \in {"thursday", "friday"}, w \in {<<540, 600>>, <<600, 660>>}}
                  \cup {Template("thursday", 540, 600, FALSE)}
MultiStores ==
    {<<Doc(10, Owner, 1, <<Rule(0, None, TRUE, <<t1, t2>>)>>)>> : t1, t2 \in MultiTemplates}
    \cup {<<Doc(10, Owner, 1, <<Rule(0, None, TRUE, <<t1>>), Rule(0, None, TRUE, <<t2>>)>>)>> :
             t1, t2 \in MultiTemplates}
    \cup {<<Doc(10, Owner, 1, <<Rule(0, None, TRUE, <<t1>>)>>),
            Doc(11, Owner, 1, <<Rule(0, None, TRUE, <<t2>>)>>)>> : t1, t2 \in MultiTemplates}

IdleRequest == [op |-> "none"]
NoResponse == [status |-> "none"]
NoEarlier == [request |-> IdleRequest, response |-> NoResponse]

\* the ObjectId after the ones the stored documents hold
NextFreeId ==
    LET ids == {calendar_settings[i].id : i \in 1..Len(calendar_settings)}
               \cup {availability[i].id : i \in 1..Len(availability)}
    IN  IF ids = {} THEN 1 ELSE 1 + (CHOOSE x \in ids : \A y \in ids : y <= x)

InitQueryState ==
    /\ pc = "idle"
    /\ request = IdleRequest
    /\ buffer_time = NoBuffer
    /\ range = NoRange
    /\ todo = <<>>
    /\ available_slots = <<>>
    /\ rule = NoRule
    /\ rule_slots = <<>>
    /\ current_date = 0
    /\ slot_index = 1
    /\ current_time = 0
    /\ slot_end = 0
    /\ truncated = FALSE
    /\ response = NoResponse
    /\ call = [c \in Clients |-> IdleCall]
    /\ reply = NoReply
    /\ earlier = NoEarlier

\* no request in flight, and no user stored
InitRequestState ==
    /\ InitQueryState
    /\ users = <<>>
    /\ next_token = 1
    /\ accepted = <<>>

InitGen ==
    /\ \/ /\ \E b \in BufferTimes : calendar_settings = <<Settings(1, Owner, OfficeHours, b)>>
          /\ \E d \in PackDocs : availability = <<d>>
       \/ /\ calendar_settings = <<Settings(1, Owner, OfficeHours, NoBuffer)>>
          /\ \E d \in ScopeDocs : availability = <<d>>
       \/ /\ calendar_settings = <<Settings(1, Owner, OfficeHours, NoBuffer)>>
          /\ availability \in MultiStores
       \/ /\ calendar_settings = <<>>
          /\ availability = <<>>
    /\ InitRequestState
    /\ next_id = NextFreeId

\* the start_date and end_date strings of a request
RangeStrings == {Rfc3339(Midnight(d)) : d \in Days} \cup {BadRfc3339}

\* CheckAvailabilityRequest.duration is an i32 that data.validate() does not look at
NonPositiveDurations == {0, 0 - 30}

NextGen ==
    \/ \E s \in RangeStrings, e \in RangeStrings, d \in Durations \cup NonPositiveDurations :
          check_availability(Owner, s, e, d)
    \/ process_availability_rule
    \/ process_availability_rule_date
    \/ process_availability_rule_pack
    \/ check_availability_return

SpecGen == InitGen /\ [][NextGen]_vars

\* the buffers of the stored settings
SlotBuffers == {NoBuffer, [before |-> 5, after |-> 5]}

\* windows in office hours and windows ending late in the day (23:30, 23:59)
LoopWindows == {<<540, 600>>, <<540, 1020>>, <<1380, 1410>>, <<1380, 1439>>}

InitLoop ==
    /\ \E b \in SlotBuffers : calendar_settings = <<Settings(1, Owner, OfficeHours, b)>>
    /\ \E w \in LoopWindows :
          availability = <<Doc(10, Owner, 1,
              <<Rule(0, None, TRUE, <<Template("thursday", w[1], w[2], TRUE)>>)>>)>>
    /\ InitRequestState
    /\ next_id = NextFreeId

\* process_availability_rule is synchronous code on the handler's thread: once
\* check_availability has fetched the rules, each loop step that can run does run
SpecGenFair ==
    /\ InitLoop /\ [][NextGen]_vars
    /\ WF_vars(process_availability_rule)
    /\ WF_vars(process_availability_rule_date)
    /\ WF_vars(process_availability_rule_pack)

-----------------------------------------------------------------------------
(* Stored states and requests the conflict checker is checked on *)

Window(s, e) == [start |-> TimeStr(s), end |-> TimeStr(e)]

WorkingHoursVariants ==
    { [d \in {} |-> <<>>],
      [d \in {"thursday", "friday"} |->
          IF d = "thursday" THEN <<>> ELSE <<Window(540, 1020)>>],
      [d \in {"thursday", "friday"} |->
          IF d = "thursday" THEN <<Window(540, 720), Window(780, 1020)>>
          ELSE <<Window(540, 1020)>>],
      [d \in {"thursday"} |-> <<[start |-> BadTimeStr, end |-> BadTimeStr]>>] }

AllDay == [d \in {DayNames[i] : i \in 1..7} |-> <<Window(0, 1439)>>]

SlotTimes == {480, 540, 600, 720, 1020}
TimeStrings == {TimeStr(m) : m \in SlotTimes} \cup {BadTimeStr}
DateStrings == {DateStr(d) : d \in Days} \cup {BadDateStr}

SlotTemplates ==
    {Template("thursday", 540, 720, TRUE), Template("friday", 540, 720, TRUE),
     Template("thursday", 540, 720, FALSE),
     [Template("thursday", 540, 720, TRUE) EXCEPT !.end_time = BadTimeStr]}

SlotDocs ==
    {Doc(10, Owner, 1, <<[sc EXCEPT !.slots = <<tmpl>>]>>) :
        sc \in Scopes, tmpl \in SlotTemplates}

WeekRule == Rule(0, None, TRUE,
                 <<Template("thursday", 540, 720, TRUE), Template("friday", 540, 1020, TRUE)>>)
OneDayRule == Rule(0, Some(Noon(0)), FALSE, <<Template("thursday", 720, 1020, TRUE)>>)

InitSlot ==
    /\ \/ /\ \E wh \in WorkingHoursVariants, b \in SlotBuffers :
                calendar_settings = <<Settings(1, Owner, wh, b)>>
          /\ availability \in {<<Doc(10, Owner, 1, <<WeekRule>>)>>,
                               <<Doc(10, Owner, 1, <<OneDayRule, WeekRule>>)>>,
                               <<Doc(10, Owner, 1, <<OneDayRule>>),
                                 Doc(11, Owner, 1, <<WeekRule>>)>>}
       \/ /\ calendar_settings = <<Settings(1, Owner, AllDay, NoBuffer)>>
          /\ \E d \in SlotDocs : availability = <<d>>
       \/ /\ calendar_settings \in {<<>>, <<Settings(1, Owner, AllDay, NoBuffer)>>}
          /\ availability = <<>>
    /\ InitRequestState
    /\ next_id = NextFreeId

NextSlot ==
    \E date \in DateStrings, s \in TimeStrings, e \in TimeStrings :
       check_time_slot(Owner, date, s, e)

SpecSlot == InitSlot /\ [][NextSlot]_vars

-----------------------------------------------------------------------------
(* The whole service: an empty database and every handler *)

SettingsRequest(timezone, buffer, default_meeting_duration) ==
    [timezone |-> timezone, working_hours |-> OfficeHours, buffer_time |-> buffer,
     default_meeting_duration |-> default_meeting_duration]

SettingsRequests ==
    {SettingsRequest("UTC", [before |-> 0, after |-> 5], 30),
     SettingsRequest("UTC", [before |-> 0 - 5, after |-> 0], 30),
     SettingsRequest("", [before |-> 0, after |-> 5], 10)}

RuleRequest(start_date, end_date, is_recurring) ==
    [start_date |-> start_date, end_date |-> end_date, is_recurring |-> is_recurring,
     recurrence_pattern |-> "weekly", slots |-> <<Template("thursday", 540, 600, TRUE)>>]

BoundedRule == RuleRequest(Rfc3339(Midnight(0)), SomeStr(Rfc3339(Midnight(1))), FALSE)
OpenRecurringRule == RuleRequest(Rfc3339(Midnight(0)), NoStr, TRUE)
OpenOnceRule == RuleRequest(Rfc3339(Midnight(0)), NoStr, FALSE)
ReversedRule == RuleRequest(Rfc3339(Midnight(1)), SomeStr(Rfc3339(Midnight(0))), FALSE)
BadStartRule == RuleRequest(BadRfc3339, NoStr, TRUE)
BadEndRule == RuleRequest(Rfc3339(Midnight(0)), SomeStr(BadRfc3339), TRUE)

RuleLists ==
    {<<>>, <<BoundedRule>>, <<OpenRecurringRule>>, <<OpenOnceRule>>, <<ReversedRule>>,
     <<BadStartRule>>, <<BadEndRule>>,
     <<OpenRecurringRule, BadStartRule>>, <<BadEndRule, BoundedRule>>,
     <<BoundedRule, OpenRecurringRule>>}

\* the rule lists sent in the whole service
FewRuleLists == {<<>>, <<OpenOnceRule>>, <<BadStartRule>>}

Ids == 1..MaxId

Init ==
    /\ calendar_settings = <<>>
    /\ availability = <<>>
    /\ InitRequestState
    /\ next_id = 1

Next ==
    \/ \E c \in Clients, u \in Users, data \in SettingsRequests : create_settings(c, u, data)
    \/ \E c \in Clients : create_settings_insert(c)
    \/ \E c \in Clients, u \in Users, data \in SettingsRequests : update_settings(c, u, data)
    \/ \E c \in Clients : update_settings_replace(c)
    \/ \E c \in Clients, u \in Users : delete_settings(c, u)
    \/ \E c \in Clients : delete_settings_delete(c)
    \/ \E c \in Clients, u \in Users, sid \in Ids, rules \in FewRuleLists :
          create_availability(c, u, [calendar_settings_id |-> sid, rules |-> rules])
    \/ \E c \in Clients : create_availability_insert(c)
    \/ \E c \in Clients, u \in Users, id \in Ids, rules \in FewRuleLists :
          update_availability(c, u, id, [rules |-> rules])
    \/ \E c \in Clients : update_availability_replace(c)
    \/ \E c \in Clients, u \in Users, id \in Ids : delete_availability(c, u, id)
    \/ \E c \in Clients : delete_availability_delete(c)

Spec == Init /\ [][Next]_vars

-----------------------------------------------------------------------------
(* One owner with stored settings, and every rule list sent to the availability handlers *)

InitRules ==
    /\ calendar_settings = <<Settings(1, Owner, OfficeHours, NoBuffer)>>
    /\ availability = <<>>
    /\ InitRequestState
    /\ next_id = NextFreeId

NextRules ==
    \/ \E sid \in Ids, rules \in RuleLists :
          create_availability("c1", Owner, [calendar_settings_id |-> sid, rules |-> rules])
    \/ create_availability_insert("c1")
    \/ \E id \in Ids, rules \in RuleLists : update_availability("c1", Owner, id, [rules |-> rules])
    \/ update_availability_replace("c1")
    \/ \E id \in Ids : delete_availability("c1", Owner, id)
    \/ delete_availability_delete("c1")

SpecRules == InitRules /\ [][NextRules]_vars

-----------------------------------------------------------------------------
(* Two users with one Availability document each, and two clients that update and
   delete by id on behalf of either user *)

InitOwners ==
    /\ calendar_settings = <<Settings(1, "u1", OfficeHours, NoBuffer),
                             Settings(2, "u2", OfficeHours, NoBuffer)>>
    /\ availability \in {<<Doc(3, "u1", 1, <<WeekRule>>)>>,
                          <<Doc(3, "u1", 1, <<WeekRule>>), Doc(4, "u2", 2, <<OneDayRule>>)>>}
    /\ InitRequestState
    /\ next_id = NextFreeId

\* the ids a request path can carry: those handed out so far
KnownIds == 1..(next_id - 1)

NextOwners ==
    \/ \E c \in Clients, u \in Users, id \in KnownIds, rules \in FewRuleLists :
          update_availability(c, u, id, [rules |-> rules])
    \/ \E c \in Clients : update_availability_replace(c)
    \/ \E c \in Clients, u \in Users, id \in KnownIds : delete_availability(c, u, id)
    \/ \E c \in Clients : delete_availability_delete(c)

SpecOwners == InitOwners /\ [][NextOwners]_vars

-----------------------------------------------------------------------------
(* One owner whose rules are sent again under other recurrence patterns, between queries *)

\* Option<String> recurrence_pattern: None and labels of calendar_model.rs line 46, other
\* than the "weekly" the rules are stored with
Patterns == {"none", "daily", "monthly"}

\* the request that sends rule r again as it is stored, under recurrence_pattern p
SameRuleAs(r, p) ==
    [start_date |-> Rfc3339(r.start_date),
     end_date |-> IF r.end_date.some THEN SomeStr(Rfc3339(r.end_date.ts)) ELSE NoStr,
     is_recurring |-> r.is_recurring,
     recurrence_pattern |-> p,
     slots |-> r.slots]

\* the stored rules of document doc under every choice of patterns
Relabelled(doc) ==
    {[j \in 1..Len(doc.rules) |-> SameRuleAs(doc.rules[j], labels[j])] :
        labels \in [1..Len(doc.rules) -> Patterns]}

\* the handler has returned its response; the next query of the owner is served
next_request ==
    /\ pc = "done"
    /\ earlier' = IF earlier = NoEarlier
                  THEN [request |-> request, response |-> response]
                  ELSE earlier
    /\ pc' = "idle"
    /\ request' = IdleRequest
    /\ buffer_time' = NoBuffer
    /\ range' = NoRange
    /\ todo' = <<>>
    /\ available_slots' = <<>>
    /\ rule' = NoRule
    /\ rule_slots' = <<>>
    /\ current_date' = 0
    /\ slot_index' = 1
    /\ current_time' = 0
    /\ slot_end' = 0
    /\ truncated' = FALSE
    /\ response' = NoResponse
    /\ UNCHANGED <<calendar_settings, availability, call, reply, next_id>>
    /\ UNCHANGED AuthVars

\* the windows asked of check_time_slot: inside a template, on a day without one, and
\* inside the template of the rule that ends on day 0
PatternSlots == {<<0, 540, 600>>, <<MaxDay, 540, 600>>, <<0, 720, 1020>>}

InitPattern ==
    /\ calendar_settings = <<Settings(1, Owner, AllDay, NoBuffer)>>
    /\ availability = <<Doc(2, Owner, 1, <<OneDayRule, WeekRule>>)>>
    /\ InitRequestState
    /\ next_id = NextFreeId

NextPattern ==
    \/ check_availability(Owner, Rfc3339(Midnight(0)), Rfc3339(Midnight(MaxDay)), 60)
    \/ process_availability_rule
    \/ process_availability_rule_date
    \/ process_availability_rule_pack
    \/ check_availability_return
    \/ \E q \in PatternSlots :
          check_time_slot(Owner, DateStr(q[1]), TimeStr(q[2]), TimeStr(q[3]))
    \/ next_request
    \/ \E rules \in Relabelled(availability[1]) :
          update_availability("c1", Owner, 2, [rules |-> rules])
    \/ update_availability_replace("c1")

SpecPattern == InitPattern /\ [][NextPattern]_vars

-----------------------------------------------------------------------------
(* refresh_token of user_controller.rs, one step per database call *)

MaxToken == 4    \* generate_refresh_token hands out 1 .. MaxToken, each value once

\* Option<String> refresh_token of a User
SomeToken(t) == [some |-> TRUE, token |-> t]
NoToken == [some |-> FALSE, token |-> 0]

User(id, refresh_token) == [id |-> id, refresh_token |-> refresh_token]

\* user_crud.rs lines 50-54: collection.find_one(doc! { "refresh_token": token })
find_by_refresh_token(token) ==
    LET hits == {i \in 1..Len(users) : users[i].refresh_token = SomeToken(token)}
    IN  IF hits = {} THEN [found |-> FALSE] ELSE [found |-> TRUE, doc |-> users[Min(hits)]]

\* user_controller.rs lines 167-180: find the user by the token, generate the new
\* tokens and set the new refresh token on the loaded copy
refresh_token(c, token) ==
    /\ call[c].at = "idle"
    /\ LET req == [at |-> "idle", op |-> "refresh_token", refresh_token |-> token,
                   user |-> User(0, NoToken)]
           user == find_by_refresh_token(token)
       IN  IF ~user.found
           THEN /\ Returns(c, req, "Unauthorized", "Invalid refresh token")
                /\ UNCHANGED next_token
           ELSE /\ next_token <= MaxToken
                /\ Awaits(c, [req EXCEPT
                       !.user = [user.doc EXCEPT !.refresh_token = SomeToken(next_token)]])
                /\ next_token' = next_token + 1
    /\ UNCHANGED <<users, accepted>>
    /\ UNCHANGED <<calendar_settings, availability, next_id, earlier>>
    /\ UNCHANGED QueryVars

\* lines 181-186 and user_crud.rs lines 62-71: find_one_and_replace by _id with the
\* loaded copy, whose result is dropped, and the TokenResponse
refresh_token_update(c) ==
    /\ call[c].at = "pending"
    /\ call[c].op = "refresh_token"
    /\ users' = ReplaceById(users, call[c].user.id, call[c].user)
    /\ accepted' = Append(accepted, call[c].refresh_token)
    /\ Returns(c, call[c], "Ok", "")
    /\ UNCHANGED next_token
    /\ UNCHANGED <<calendar_settings, availability, next_id, earlier>>
    /\ UNCHANGED QueryVars

\* one user who has logged in (login, lines 132-135, stored refresh token 1) and one
\* who has not
InitAuth ==
    /\ calendar_settings = <<>>
    /\ availability = <<>>
    /\ InitQueryState
    /\ next_id = 1
    /\ users = <<User(1, SomeToken(1)), User(2, NoToken)>>
    /\ next_token = 2
    /\ accepted = <<>>

NextAuth ==
    \/ \E c \in Clients, token \in 1..MaxToken : refresh_token(c, token)
    \/ \E c \in Clients : refresh_token_update(c)

SpecAuth == InitAuth /\ [][NextAuth]_vars

-----------------------------------------------------------------------------
(* What the claims speak about *)

Answered == pc = "done" /\ request.op = "check_availability" /\ response.status = "Ok"

\* every stored slot template is a window of the data model: valid times, start < end
WellFormedTemplates ==
    \A i \in 1..Len(availability) : \A j \in 1..Len(availability[i].rules) :
       \A k \in 1..Len(availability[i].rules[j].slots) :
          LET tmpl == availability[i].rules[j].slots[k]
          IN  /\ tmpl.start_time.valid
              /\ tmpl.end_time.valid
              /\ tmpl.start_time.minute < tmpl.end_time.minute

\* the inputs the packing contract is stated for: duration > 0, buffers >= 0
ContractInputs ==
    /\ request.op = "check_availability"
    /\ request.duration > 0
    /\ buffer_time.before >= 0
    /\ buffer_time.after >= 0
    /\ WellFormedTemplates

\* the store holds one document with one rule with one slot template
SingleTemplate ==
    /\ Len(availability) = 1
    /\ Len(availability[1].rules) = 1
    /\ Len(availability[1].rules[1].slots) = 1

TheRule == availability[1].rules[1]
TheTemplate == availability[1].rules[1].slots[1]

\* the document was fetched, so its rules went through process_availability_rule
Fetched(doc) == MatchesAvailableSlotsFilter(doc, request.user_id, range.start, range.end)

\* the slots the contract promises for window [s, e] on one date: k = 0 .. n-1 with
\* n the largest integer such that s + n*T <= e
PromisedCount(s, e, T) == IF e < s THEN 0 ELSE (e - s) \div T
PromisedSlots(date, s, e, d, b, a) ==
    [k \in 1..PromisedCount(s, e, d + b + a) |->
        [date       |-> DateStr(date),
         start_time |-> TimeStr(s + b + (k - 1) * (d + b + a)),
         end_time   |-> TimeStr(s + b + (k - 1) * (d + b + a) + d)]]

RECURSIVE PromisedOver(_, _, _, _, _)
PromisedOver(lo, hi, tmpl, d, buffer) ==
    IF lo > hi THEN <<>>
    ELSE (IF SlotMatches(tmpl, lo)
          THEN PromisedSlots(lo, tmpl.start_time.minute, tmpl.end_time.minute,
                             d, buffer.before, buffer.after)
          ELSE <<>>)
         \o PromisedOver(lo + 1, hi, tmpl, d, buffer)

\* the dates of the range on which the template applies
MatchingDates(tmpl) ==
    {d \in DateNaive(range.start)..DateNaive(range.end) : SlotMatches(tmpl, d)}

\* rule r's scope covers date d, by calendar date
ScopeCovers(r, d) ==
    /\ DateNaive(r.start_date) <= d
    /\ \/ r.end_date.some /\ DateNaive(r.end_date.ts) >= d
       \/ ~r.end_date.some /\ r.is_recurring

RulesOf(doc) == {doc.rules[j] : j \in 1..Len(doc.rules)}
SlotsOf(r) == {r.slots[j] : j \in 1..Len(r.slots)}
StoredRules == UNION {RulesOf(availability[i]) : i \in 1..Len(availability)}
Elems(s) == {s[i] : i \in 1..Len(s)}

-----------------------------------------------------------------------------
(* Claims on the slot generator *)

\* C1: for one slot template window [s, e] (is_available, weekday matching the date),
\* duration d > 0 and buffers b, a >= 0, process_availability_rule emits on that date
\* exactly the slots (s + b + k*T, s + b + k*T + d), k = 0 .. n-1, T = d + b + a,
\* n the largest integer with s + n*T <= e, and no other slot.
C1_ExactPacking ==
    (Answered /\ ~truncated /\ ContractInputs /\ SingleTemplate /\ Fetched(availability[1]))
    => response.available_slots =
          PromisedOver(DateNaive(range.start), DateNaive(range.end), TheTemplate,
                       request.duration, buffer_time)

\* C2: every returned AvailableTimeSlot lies inside a slot template window of a stored
\* rule for its weekday (template.start <= slot.start, slot.end <= template.end), and
\* its date lies within [range_start, range_end].
C2_Containment ==
    (Answered /\ ~truncated /\ ContractInputs)
    => \A x \in Elems(response.available_slots) :
          /\ DateNaive(range.start) <= x.date.day
          /\ x.date.day <= DateNaive(range.end)
          /\ \E r \in StoredRules : \E tmpl \in SlotsOf(r) :
                /\ SlotMatches(tmpl, x.date.day)
                /\ tmpl.start_time.minute <= x.start_time.minute
                /\ x.end_time.minute <= tmpl.end_time.minute

\* C3: a slot is emitted on date d from rule r only if r's scope covers d
\* (r.start_date <= d and either r.end_date >= d, or r.end_date is None and
\* r.is_recurring); a rule contributes nothing before its start_date or after its
\* end_date.
C3_ScopePerDay ==
    (Answered /\ ~truncated /\ ContractInputs)
    => \A x \in Elems(response.available_slots) :
          \E r \in StoredRules :
             /\ ScopeCovers(r, x.date.day)
             /\ \E tmpl \in SlotsOf(r) : SlotMatches(tmpl, x.date.day)

\* C4: the list returned by check_availability is sorted ascending by (date, start):
\* for adjacent x, y: x.date < y.date, or x.date = y.date and x.start <= y.start.
C4_Sorted ==
    Answered
    => \A i \in 1..(Len(response.available_slots) - 1) :
          LET x == response.available_slots[i]
              y == response.available_slots[i + 1]
          IN  \/ x.date.day < y.date.day
              \/ x.date.day = y.date.day /\ x.start_time.minute <= y.start_time.minute

\* C4 witness: an answer of several slots that the accumulator held in another order
C4_Witness ==
    /\ Answered
    /\ Len(response.available_slots) >= 3
    /\ response.available_slots # available_slots

\* C5: two consecutive slots i, i+1 emitted on the same date from the expansion of the
\* same slot template satisfy slot[i].end + buffer.after <= slot[i+1].start - buffer.before.
C5_NoOverlap ==
    (ContractInputs /\ Len(rule.slots) = 1)
    => \A i \in 1..(Len(rule_slots) - 1) :
          rule_slots[i].date = rule_slots[i + 1].date
          => rule_slots[i].end_time.minute + buffer_time.after
                <= rule_slots[i + 1].start_time.minute - buffer_time.before

\* C6: a window exactly duration + before + after minutes long yields exactly one slot
\* on a matching date, and a window one minute shorter yields none.
C6_Boundary ==
    (Answered /\ ~truncated /\ ContractInputs /\ SingleTemplate /\ Fetched(availability[1])
       /\ TheTemplate.is_available)
    => LET len == TheTemplate.end_time.minute - TheTemplate.start_time.minute
           T == total_duration(request.duration, buffer_time)
       IN  /\ len = T => Len(response.available_slots) = Cardinality(MatchingDates(TheTemplate))
           /\ len = T - 1 => response.available_slots = <<>>

\* C7: every emitted slot is confined to one calendar day: start < end,
\* end = start + duration, no end wrapped past 24:00.
C7_SingleDay ==
    ContractInputs
    => \A x \in Elems(rule_slots) \cup Elems(available_slots) :
          /\ x.start_time.minute < x.end_time.minute
          /\ x.end_time.minute = x.start_time.minute + request.duration

-----------------------------------------------------------------------------
(* Claims on the conflict checker *)

SlotAnswered == pc = "done" /\ request.op = "check_time_slot" /\ response.status = "Ok"

\* the settings and the document check_time_slot loaded
LoadedSettings == FindOneByUser(calendar_settings, request.user_id).doc
LoadedDoc == FindOneByUser(availability, request.user_id).doc

\* date, start and end of the request are a date and two times of day
WellFormedSlotRequest ==
    request.date.valid /\ request.start_time.valid /\ request.end_time.valid

\* every working window of the loaded settings holds two times of day
WellFormedWorkingHours ==
    \A d \in DOMAIN LoadedSettings.working_hours :
       \A i \in 1..Len(LoadedSettings.working_hours[d]) :
          /\ LoadedSettings.working_hours[d][i].start.valid
          /\ LoadedSettings.working_hours[d][i].end.valid

\* the answer shows that the working-hours stage failed
WorkingHoursStageFailed ==
    /\ response.conflicts.some
    /\ response.conflicts.value[1] \in {NoWorkingHours, OutsideWorkingHours}

\* the working windows of weekday(date), <<>> when the map has no entry
WindowsOfDay ==
    IF DayOfWeek(request.date.day) \in DOMAIN LoadedSettings.working_hours
    THEN LoadedSettings.working_hours[DayOfWeek(request.date.day)]
    ELSE <<>>

\* some working window wh has start >= wh.start and end <= wh.end
FitsSomeWindow ==
    \E i \in 1..Len(WindowsOfDay) :
       /\ request.start_time.minute >= WindowsOfDay[i].start.minute
       /\ request.end_time.minute <= WindowsOfDay[i].end.minute

\* C8: working-hours stage: no entry for weekday(date), or an empty list, gives not
\* available with "No working hours set for this day"; otherwise the stage passes iff
\* some working window wh has start >= wh.start and end <= wh.end, and when none does
\* the answer is not available with "Time slot is outside working hours".
C8_WorkingHoursStage ==
    (SlotAnswered /\ WellFormedSlotRequest /\ WellFormedWorkingHours)
    => IF WindowsOfDay = <<>>
       THEN /\ ~response.is_available
            /\ response.conflicts = [some |-> TRUE, value |-> <<NoWorkingHours>>]
       ELSE IF FitsSomeWindow
       THEN ~WorkingHoursStageFailed
       ELSE /\ ~response.is_available
            /\ response.conflicts = [some |-> TRUE, value |-> <<OutsideWorkingHours>>]

\* C8 witness: the day has two working windows, the proposed window fits the second
\* and not the first, and the stage passed
C8_Witness ==
    /\ SlotAnswered /\ WellFormedSlotRequest /\ WellFormedWorkingHours
    /\ Len(WindowsOfDay) = 2
    /\ request.start_time.minute >= WindowsOfDay[2].start.minute
    /\ request.end_time.minute <= WindowsOfDay[2].end.minute
    /\ request.start_time.minute > WindowsOfDay[1].end.minute
    /\ ~WorkingHoursStageFailed

\* a template of rule r covers the proposed window on its weekday
TemplateCovers(r) ==
    \E tmpl \in SlotsOf(r) :
       /\ tmpl.day_of_week = DayOfWeek(request.date.day)
       /\ tmpl.is_available
       /\ tmpl.start_time.valid /\ tmpl.end_time.valid
       /\ tmpl.start_time.minute <= request.start_time.minute
       /\ tmpl.end_time.minute >= request.end_time.minute

\* C9: rule stage: given that the working-hours stage passed, the window is available
\* iff some rule whose scope covers the date per the selector (start_date <= date and
\* either end_date >= date, or end_date is None and is_recurring) has a slot with
\* day_of_week = weekday(date), is_available, slot.start <= start, slot.end >= end;
\* otherwise the conflict is "Time slot is not available in your schedule".
C9_RuleStage ==
    (SlotAnswered /\ WellFormedSlotRequest /\ ~WorkingHoursStageFailed)
    => /\ response.is_available
             <=> \E r \in RulesOf(LoadedDoc) :
                    ScopeCovers(r, request.date.day) /\ TemplateCovers(r)
       /\ ~response.is_available
             => response.conflicts = [some |-> TRUE, value |-> <<NotInSchedule>>]

\* the two stages, as the code evaluates them on the request
WorkingHoursStagePasses ==
    working_hours_conflicts(LoadedSettings, request.date, request.start_time,
                            request.end_time) = <<>>
RuleStagePasses ==
    is_within_availability(LoadedDoc, request.date, request.start_time, request.end_time)

\* C10: is_available is true only if both stages pass, and then there is no conflict;
\* otherwise is_available is false and the conflict list holds exactly one reason,
\* that of the first failing stage (the working-hours reason when both would fail).
C10_OneReason ==
    SlotAnswered
    => /\ response.is_available <=> (WorkingHoursStagePasses /\ RuleStagePasses)
       /\ response.is_available => ~response.conflicts.some
       /\ ~response.is_available
             => /\ response.conflicts.some
                /\ Len(response.conflicts.value) = 1
                /\ response.conflicts.value[1] =
                      IF ~WorkingHoursStagePasses
                      THEN working_hours_conflicts(LoadedSettings, request.date,
                               request.start_time, request.end_time)[1]
                      ELSE NotInSchedule

\* C10 witness: both stages fail on the request and the answer carries one reason
C10_Witness ==
    /\ SlotAnswered
    /\ ~WorkingHoursStagePasses
    /\ ~RuleStagePasses
    /\ ~response.is_available
    /\ Len(response.conflicts.value) = 1

-----------------------------------------------------------------------------
(* Claims on the store handlers *)

\* C11: in every reachable state, after any interleaving of create_settings,
\* update_settings and delete_settings calls (two concurrent create_settings calls for
\* one user included), calendar_settings holds at most one CalendarSettings per user_id.
C11_OneSettingsPerUser ==
    \A u \in Users :
       Cardinality({i \in 1..Len(calendar_settings) : calendar_settings[i].user_id = u}) <= 1

\* a rule request that AvailabilityRule::new has to refuse: its start_date, or its
\* present end_date, is not a timestamp
Malformed(r) == ~r.start_date.valid \/ (r.end_date.some /\ ~r.end_date.str.valid)
HasMalformed(rules) == \E i \in 1..Len(rules) : Malformed(rules[i])

AvailabilityWrites == {"create_availability", "update_availability"}

\* the request reaches the rule loop: create_availability found the caller's settings
\* under the id it names, update_availability found the caller's document
ReachesRuleLoop(req) ==
    IF req.op = "create_availability"
    THEN /\ FindOneByUser(calendar_settings, req.user_id).found
         /\ FindOneByUser(calendar_settings, req.user_id).doc.id = req.data.calendar_settings_id
    ELSE /\ FindById(availability, req.id).found
         /\ FindById(availability, req.id).doc.user_id = req.user_id

\* C12: AvailabilityRule::new fails on a start_date_str, or a present end_date_str,
\* that is not a parseable timestamp and substitutes no default date; create_availability
\* and update_availability then fail with a validation error for the whole request and
\* store nothing, also when only one of several rules is malformed.
C12_MalformedRuleFailsRequest ==
    [][(/\ reply' # reply
        /\ reply'.request.op \in AvailabilityWrites
        /\ HasMalformed(reply'.request.data.rules))
       => /\ \A i \in 1..Len(reply'.request.data.rules) :
                LET r == reply'.request.data.rules[i]
                IN  Malformed(r) =>
                       ~AvailabilityRule_new(r.start_date, r.end_date, r.is_recurring,
                                             r.recurrence_pattern, r.slots).ok
          /\ reply'.status \in {"ValidationError", "NotFound", "BadRequest", "Forbidden"}
          /\ ReachesRuleLoop(reply'.request) => reply'.status = "ValidationError"
          /\ availability' = availability
          /\ call'[reply'.to] = IdleCall]_vars

\* C12 witness: a request of two rules, the second malformed, was refused as a whole
\* and the collection holds no document
C12_Witness ==
    /\ reply.request.op = "create_availability"
    /\ reply.request.data.rules = <<OpenRecurringRule, BadStartRule>>
    /\ reply.status = "ValidationError"
    /\ reply.message = "Invalid start date"
    /\ availability = <<>>

\* C13: a rule with end_date absent and is_recurring = false is rejected by
\* AvailabilityRule::new, so no stored Availability holds an unbounded non-recurring rule.
C13_NoUnboundedOnce ==
    \A r \in StoredRules : ~r.end_date.some => r.is_recurring

\* C17: every rule that construction accepts, hence every stored rule after any
\* sequence of create_availability and update_availability calls, has
\* start_date <= end_date whenever end_date is present.
C17_StartBeforeEnd ==
    \A r \in StoredRules : r.end_date.some => r.start_date <= r.end_date.ts

\* C18: every CalendarSettings stored by create_settings and update_settings has
\* buffer_time.before >= 0 and buffer_time.after >= 0; a request with a negative
\* buffer is rejected and stores nothing.
C18_BuffersNonNegative ==
    \A i \in 1..Len(calendar_settings) :
       /\ calendar_settings[i].buffer_time.before >= 0
       /\ calendar_settings[i].buffer_time.after >= 0

-----------------------------------------------------------------------------
(* Claims on the query boundary and on rule selection *)

\* C14: a check_availability request whose duration is <= 0 is rejected with a
\* validation error before process_availability_rule runs; the packing loop is never
\* entered with duration <= 0.
C14_DurationRejected ==
    (request.op = "check_availability" /\ request.duration <= 0)
    => /\ pc \notin {"rule", "date", "pack"}
       /\ response.status # "Ok"

\* some string the conflict checker reads is malformed: the date or a time of the
\* request, a working-hours time of the loaded settings, a template time of the
\* loaded document
MalformedSlotInput ==
    \/ ~WellFormedSlotRequest
    \/ ~WellFormedWorkingHours
    \/ \E r \in RulesOf(LoadedDoc) : \E tmpl \in SlotsOf(r) :
          ~tmpl.start_time.valid \/ ~tmpl.end_time.valid

\* C15: the engine never guesses a value for a malformed date or time string: when the
\* date of check_time_slot is not a valid date, or a start_time, end_time, working-hours
\* time or slot template time is not a valid HH:MM string, the answer is a validation
\* failure and the window is not evaluated with a substituted time.
C15_NoGuessing ==
    (/\ pc = "done"
     /\ request.op = "check_time_slot"
     /\ FindOneByUser(calendar_settings, request.user_id).found
     /\ FindOneByUser(availability, request.user_id).found
     /\ MalformedSlotInput)
    => response.status = "ValidationError"

\* the orders in which the repository can hold the documents of a collection
Reorderings(coll) ==
    LET n == Len(coll)
        perms == {f \in [1..n -> 1..n] : \A i, j \in 1..n : i # j => f[i] # f[j]}
    IN  {[i \in 1..n |-> coll[f[i]]] : f \in perms}

\* C16: the engine is deterministic: two runs of check_time_slot on the same stored
\* settings, the same stored rules and the same query return the same is_available and
\* conflicts, independent of the order in which the repository returns the
\* availability documents.
C16_OrderIndependent ==
    SlotAnswered
    => \A other \in Reorderings(availability) :
          LET r == is_slot_available(request.date, request.start_time, request.end_time,
                                     LoadedSettings, FindOneByUser(other, request.user_id).doc)
          IN  /\ response.is_available = r.is_available
              /\ response.conflicts = OptionalConflicts(r.conflicts)

\* the rules of the caller's documents
OwnRules ==
    UNION {RulesOf(availability[i]) :
              i \in {j \in 1..Len(availability) : availability[j].user_id = request.user_id}}

\* C19: rule selection is complete: for every date d of the query range and every
\* stored rule of the owner whose scope covers d (bounded rule with start_date <= d <=
\* end_date by calendar date, or open-ended recurring rule with start_date <= d),
\* check_availability returns the slots that the packing yields for each available
\* template of that rule matching weekday(d).
C19_SelectionComplete ==
    (Answered /\ ~truncated /\ ContractInputs)
    => \A d \in DateNaive(range.start)..DateNaive(range.end) :
          \A r \in OwnRules : \A tmpl \in SlotsOf(r) :
             (ScopeCovers(r, d) /\ SlotMatches(tmpl, d))
             => Elems(PromisedSlots(d, tmpl.start_time.minute, tmpl.end_time.minute,
                                    request.duration, buffer_time.before, buffer_time.after))
                   \subseteq Elems(response.available_slots)

\* C20: a slot template whose end is at or before its start yields zero emitted slots
\* on every date, for every duration > 0 and every non-negative buffers, and is not
\* reported as an error.
C20_EmptyWindow ==
    (/\ request.op = "check_availability"
     /\ request.start_date.valid
     /\ request.end_date.valid
     /\ request.duration > 0
     /\ buffer_time.before >= 0
     /\ buffer_time.after >= 0
     /\ SingleTemplate
     /\ TheTemplate.start_time.valid
     /\ TheTemplate.end_time.valid
     /\ TheTemplate.end_time.minute <= TheTemplate.start_time.minute)
    => /\ rule_slots = <<>>
       /\ available_slots = <<>>
       /\ pc = "done" => response.status = "Ok" /\ response.available_slots = <<>>

-----------------------------------------------------------------------------
(* Claims on what the two queries read *)

\* the proposed window is exactly the window of an available template of the weekday,
\* in a rule of the loaded document whose scope covers the date
ExactFill ==
    \E r \in RulesOf(LoadedDoc) : \E tmpl \in SlotsOf(r) :
       /\ ScopeCovers(r, request.date.day)
       /\ tmpl.day_of_week = DayOfWeek(request.date.day)
       /\ tmpl.is_available
       /\ tmpl.start_time = request.start_time
       /\ tmpl.end_time = request.end_time

\* C21: the answer of check_time_slot does not depend on settings.buffer_time: with
\* the same working hours, rules, date, start and end, every other buffer_time gives
\* the same is_available and the same conflicts; a window that exactly fills an
\* available template window is accepted, whatever the buffers.
C21_BufferIndependent ==
    SlotAnswered
    => /\ \A b \in BufferTimes :
             LET r == is_slot_available(request.date, request.start_time, request.end_time,
                                        [LoadedSettings EXCEPT !.buffer_time = b], LoadedDoc)
             IN  /\ response.is_available = r.is_available
                 /\ response.conflicts = OptionalConflicts(r.conflicts)
       /\ (WellFormedSlotRequest /\ WorkingHoursStagePasses /\ ExactFill)
             => response.is_available

\* C21 witness: the settings hold non-zero buffers and a window that exactly fills an
\* available template window was accepted
C21_Witness ==
    /\ SlotAnswered /\ WellFormedSlotRequest
    /\ LoadedSettings.buffer_time.before > 0
    /\ LoadedSettings.buffer_time.after > 0
    /\ ExactFill
    /\ response.is_available

\* the recurrence patterns of the stored rules, in order
StoredPatterns ==
    [j \in 1..Len(availability[1].rules) |-> availability[1].rules[j].recurrence_pattern]

\* C22: recurrence_pattern is never consulted by matching: on rule sets that differ
\* only in recurrence_pattern (None, "daily", "weekly", "monthly"), check_availability
\* returns the same slot list and check_time_slot the same result for the same
\* request; templates are matched by weekday whatever the pattern.
C22_PatternIgnored ==
    (pc = "done" /\ earlier.request = request) => response = earlier.response

\* C22 witness: the stored rules no longer carry the patterns they were created with,
\* and a query answered before is answered again with a slot list that is not empty
C22_Witness ==
    /\ pc = "done"
    /\ earlier.request = request
    /\ request.op = "check_availability"
    /\ response.status = "Ok"
    /\ response.available_slots # <<>>
    /\ StoredPatterns = <<"daily", "none">>

-----------------------------------------------------------------------------
(* Claims that relate the generator, the conflict checker and the store *)

RECURSIVE SumSeq(_)
SumSeq(s) == IF s = <<>> THEN 0 ELSE s[1] + SumSeq(Tail(s))

\* the rules check_availability hands to process_availability_rule, in order
ProcessedRules ==
    RulesInOrder(find_available_slots(request.user_id, range.start, range.end))

\* the number of slots the packing promises for template tmpl over the dates of the
\* range on which it applies
PackedOverRange(tmpl) ==
    Cardinality(MatchingDates(tmpl))
       * PromisedCount(tmpl.start_time.minute, tmpl.end_time.minute,
                       total_duration(request.duration, buffer_time))

\* C23: the generator neither deduplicates nor merges: the number of slots returned
\* is the sum, over every processed rule, every date of the range and every matching
\* available template, of the number of slots the packing yields for that template
\* (two templates covering the same window yield each slot twice).
C23_NoDedup ==
    (Answered /\ ~truncated /\ ContractInputs)
    => Len(response.available_slots) =
          SumSeq([i \in 1..Len(ProcessedRules) |->
                    SumSeq([k \in 1..Len(ProcessedRules[i].slots) |->
                              PackedOverRange(ProcessedRules[i].slots[k])])])

\* C24: slot generation terminates: for a finite range, duration > 0, buffers >= 0
\* and templates with valid HH:MM times (windows ending late in the day and durations
\* of several hours included), process_availability_rule leaves its packing loop and
\* its date loop after finitely many steps and returns its slot list to
\* check_availability (pc = "rule").
C24_Terminates ==
    (pc \in {"date", "pack"} /\ ContractInputs) ~> (pc = "rule")

\* C25: every slot check_availability returns, for date d with (start, end), passes
\* the rule stage of the conflict checker on the same stored rules:
\* is_slot_available_in_rule holds for at least one rule of the owner, so an offered
\* slot is never rejected with "Time slot is not available in your schedule".
C25_OfferedPassesRuleStage ==
    (Answered /\ ~truncated /\ ContractInputs)
    => \A i \in 1..Len(response.available_slots) :
          LET x == response.available_slots[i]
          IN  \E r \in OwnRules :
                 is_slot_available_in_rule(r, x.date, x.start_time, x.end_time)

\* C26: check_time_slot never reports is_available = true for a window whose
\* start_time is not strictly before its end_time (10:00-10:00, 10:00-09:30).
C26_StartBeforeEnd ==
    (SlotAnswered /\ WellFormedSlotRequest
        /\ request.start_time.minute >= request.end_time.minute)
    => ~response.is_available

\* C27: check_time_slot consults the same rule set as check_availability, the rules
\* of all the owner's documents: a rule of any of the user's documents that covers
\* the date and window makes check_time_slot pass its rule stage, not only a rule of
\* the one document find_by_user_id returns.
C27_AllDocuments ==
    (SlotAnswered /\ WellFormedSlotRequest /\ WellFormedWorkingHours
        /\ request.start_time.minute < request.end_time.minute
        /\ WorkingHoursStagePasses
        /\ \E r \in OwnRules :
              is_slot_available_in_rule(r, request.date, request.start_time,
                                        request.end_time))
    => response.is_available

\* a handler of update_availability or delete_availability returns in this step
AvailabilityByIdReturns ==
    /\ reply' # reply
    /\ reply'.request.op \in {"update_availability", "delete_availability"}

\* the document the returning request addresses belongs to another user
AddressedByNonOwner ==
    LET existing == FindById(availability, reply'.request.id)
    IN  existing.found /\ existing.doc.user_id # reply'.request.user_id

\* C28: update_availability and delete_availability called by a user who is not the
\* document's owner fail with Forbidden and leave the availability collection
\* unchanged; only the owner's call changes or removes a document.
C28_NonOwnerForbidden ==
    [][/\ (AvailabilityByIdReturns /\ AddressedByNonOwner)
             => (reply'.status = "Forbidden" /\ availability' = availability)
       /\ \A i \in 1..Len(availability) :
             (~\E j \in 1..Len(availability') : availability'[j] = availability[i])
             => /\ AvailabilityByIdReturns
                /\ reply'.request.user_id = availability[i].user_id
                /\ reply'.request.id = availability[i].id]_vars

\* C28 witness: a delete by a user who does not own the addressed document was
\* answered Forbidden, and the document is still stored
C28_Witness ==
    /\ reply.request.op = "delete_availability"
    /\ reply.status = "Forbidden"
    /\ LET existing == FindById(availability, reply.request.id)
       IN  existing.found /\ existing.doc.user_id # reply.request.user_id

\* C29: in every reachable state, after any sequence of create_settings,
\* delete_settings, create_availability, update_availability and delete_availability
\* calls, every stored Availability has a calendar_settings_id that is the id of an
\* existing CalendarSettings of the same user.
C29_SettingsExist ==
    \A i \in 1..Len(availability) :
       \E j \in 1..Len(calendar_settings) :
          /\ calendar_settings[j].id = availability[i].calendar_settings_id
          /\ calendar_settings[j].user_id = availability[i].user_id

-----------------------------------------------------------------------------
(* Claims on the refresh token *)

\* C30: a refresh token is accepted at most once: in any interleaving of
\* refresh_token calls, once one call with token t has succeeded, every other call
\* with the same t fails with "Invalid refresh token"; two concurrent calls that
\* present the same t never both return new tokens.
C30_AcceptedOnce ==
    \A i \in 1..Len(accepted) : \A j \in 1..Len(accepted) :
       i # j => accepted[i] # accepted[j]

====
